---------------------------- MODULE Spec2Model ----------------------------
(***************************************************************************)
(* Model of the booking-automation extension's service worker              *)
(* (src/js/background.js, both listener sets the file registers) together  *)
(* with the content script (src/js/content.js) as the Page Actor.          *)
(*                                                                         *)
(* Every handler is one action; every suspension point of the code (a      *)
(* chrome.* callback, a promise continuation, a setTimeout, a message in   *)
(* flight) is one record of the bag `inflight`, handled by its own action. *)
(***************************************************************************)
EXTENDS Integers, Sequences, FiniteSets, Bags, TLC

\* ------------------------------------------------------------------ bounds
\* Budget of external events (user commands, tab events, option edits). An
\* event that arrives while a callback, promise or message of an earlier
\* handler is still outstanding counts double.
MaxEvents == 3
\* The budget of the wider specification SpecWide.
MaxEventsWide == 4
\* Event budget of the unattended runs checked for termination: the start,
\* one matching load after Phase A and a second one while work is outstanding.
MaxEventsFair == 4

\* Number of log() calls followed from a given stored history.
MaxLogCalls == 4

\* ------------------------------------------------------------- universe
Tabs == {1, 2}
Null == 0

\* A URL is a sequence of tokens; every token but "http", "://" and
\* "/new-ride/" stands for one character.
Closed == <<>>
UrlBase == <<"http", "s", "://", "a", ".", "b", ".", "c", "/", "l">>
UrlRide == <<"http", "s", "://", "a", ".", "b", ".", "c", "/new-ride/", "1">>
UrlEvil == <<"http", "://", "x", ".", "y", "/new-ride/", "1">>
URLs == {UrlBase, UrlRide, UrlEvil}

\* options.allowListedDomain in chrome.storage.sync: undefined (no options
\* saved, or options reset), or the saved string. The empty string is falsy
\* like undefined and takes the same branches everywhere.
DomUnset == [set |-> FALSE, val |-> <<>>]
DomABC == [set |-> TRUE, val |-> <<"a", ".", "b", ".", "c">>]
DomainValues == {DomUnset, DomABC}

\* Run configurations the popup can submit.
Cfg(dry, auto, phases) ==
    [isDryRun |-> dry, autoRefresh |-> auto, enabledPhases |-> phases]
NoConfig == Cfg(FALSE, FALSE, {})
CfgDry == Cfg(TRUE, FALSE, {6, 8, 9})
CfgP6Only == Cfg(FALSE, FALSE, {6})
CfgAuto == Cfg(FALSE, TRUE, {6, 8, 9})
Configs == {CfgDry, CfgP6Only, CfgAuto}

VARIABLES
    automationInProgress,   \* in-memory run flag
    activeTabId,            \* tracked target frame
    baseTabId,              \* frame the run started in
    currentConfig,          \* configuration of the run
    refreshTimeoutId,       \* stored id of the auto-refresh timer
    newRideTabId,           \* frame tracked by the first listener set
    persisted,              \* storage.local automation_in_progress
    optDomain,              \* storage.sync options.allowListedDomain
    localStore,             \* storage.local vehicleClass / finalClickEnabled
    tabUrl,                 \* URL of each frame, Closed once removed
    actors,                 \* content-script listeners registered per frame
    inflight,               \* bag of pending continuations and messages
    startResp,              \* response the UI received per start command
    eventsLeft,             \* event budget left
    stopCause,              \* history: "abort" / "closed" once the user aborted or
                            \* closed the tracked frame of a run, "" from the
                            \* next start command on
    last,                   \* the handler that ran last and what it emitted
    logHistory,             \* storage.local logHistory
    logReads,               \* storage reads of log() awaiting their callback
    logCount,               \* entries passed to log() so far
    navUrl,                 \* URL handed to the navigation-pattern check
    navResult,              \* outcome of that check
    page,                   \* DOM of the frame a content script runs in
    call,                   \* phase command the content script received
    answers,                \* sendResponse calls made for that command
    clicked,                \* elements the content script clicked
    threw,                  \* an exception left the content script's handler
    deferred,               \* DOMContentLoaded listener of Phase 8 registered
    winListener,            \* window 'message' listener of Phase 8 registered
    winQueue,               \* window messages posted and not yet dispatched
    readySignals,           \* phase9_readyToAccept messages sent
    tzWest,                 \* the browser's time zone lies west of UTC
    dateArgs,               \* arguments handed to isDateInRange
    dateResult,             \* what isDateInRange returned
    selectArgs,             \* the selector's options and the labels handed to Phase 8
    selectResult            \* what Phase 8's injected script selected and posted

\* The service worker's run state and its environment.
ctlVars == <<automationInProgress, activeTabId, baseTabId, currentConfig,
             refreshTimeoutId, newRideTabId, persisted, optDomain, localStore,
             tabUrl, actors, inflight, startResp, eventsLeft, stopCause, last>>

\* The persisted log.
logVars == <<logHistory, logReads, logCount>>

\* The navigation-pattern check taken alone.
navVars == <<navUrl, navResult>>

\* One content script in its frame, taken alone.
actorVars == <<page, call, answers, clicked, threw, deferred, winListener, winQueue,
               readySignals>>

\* What the handlers of the run leave alone.
\* The date window predicate taken alone.
dateVars == <<tzWest, dateArgs, dateResult>>

\* The option scan of Phase 8 taken alone.
selectVars == <<selectArgs, selectResult>>

sideVars == <<logVars, navVars, actorVars, dateVars, selectVars>>

vars == <<ctlVars, sideVars>>


\* ------------------------------------------------------------ safety gate
Falsy(d) == ~d.set \/ d.val = <<>>

Includes(s, sub) ==
    \E i \in 1..(Len(s) - Len(sub) + 1) : SubSeq(s, i, i + Len(sub) - 1) = sub

\* The gate without its `!domain` test: "".includes-style, every URL contains
\* the empty string.
checkDomainFailOpen(url, d) == url # Closed /\ Includes(url, d.val)

\* startAutomation gate: `!domain` and `!activeTab.url || !url.includes(domain)`.
checkDomain(url, d) == ~Falsy(d) /\ url # Closed /\ Includes(url, d.val)

\* new RegExp(`^https?://${domain.replace('.', '\\.')}/new-ride/.*`):
\* String.replace with a string pattern escapes the first "." only; every
\* later "." of the domain stays a regular-expression wildcard.
OneChar == {"s", "a", "b", "c", "x", "y", "l", "1", ".", "/"}

FirstDot(dom) ==
    IF \E i \in 1..Len(dom) : dom[i] = "."
    THEN CHOOSE i \in 1..Len(dom) :
            dom[i] = "." /\ \A j \in 1..(i - 1) : dom[j] # "."
    ELSE 0

PatMatches(dom, i, tok) ==
    IF dom[i] = "." /\ i # FirstDot(dom) THEN tok \in OneChar ELSE tok = dom[i]

checkNavigationPattern(url, d) ==
    /\ url # Closed
    /\ \E k \in {1, 2} :
        /\ Len(url) >= k + 2 + Len(d.val)
        /\ url[1] = "http"
        /\ k = 2 => url[2] = "s"
        /\ url[k + 1] = "://"
        /\ \A i \in 1..Len(d.val) : PatMatches(d.val, i, url[k + 1 + i])
        /\ url[k + 2 + Len(d.val)] = "/new-ride/"

\* First onUpdated listener: tab.url.includes('/new-ride/').
IncludesNewRide(url) == url # Closed /\ \E i \in 1..Len(url) : url[i] = "/new-ride/"

\* ------------------------------------------------- continuations, effects
Msg(k, id, tab, url, cfg, ph, st) ==
    [k |-> k, id |-> id, tab |-> tab, url |-> url, cfg |-> cfg, ph |-> ph, st |-> st]

\* Outward effect of a handler: "inject" (executeScript called), "cmd" (phase
\* command sent), "reload" (chrome.tabs.reload called), "event" (lifecycle
\* message to the popup), "alarm", "click" (DOM action performed by the Actor).
\* n counts how often the effect occurred in the handler.
Fx(k, tab, ph, dry, tag) ==
    [k |-> k, tab |-> tab, url |-> IF tab \in Tabs THEN tabUrl[tab] ELSE Closed,
     ph |-> ph, dry |-> dry, tag |-> tag, n |-> 1]

Put(b, m) == b (+) SetToBag({m})
Take(b, m) == b (-) SetToBag({m})
Pending(k) == {m \in BagToSet(inflight) : m.k = k}

\* A clearTimeout that cancels nothing.
clearTimeoutSkipped(b, id) == b

\* clearTimeout(id): cancels the pending timer carrying that id, if any.
ClearTimeout(b, id) ==
    b (-) SetToBag({m \in BagToSet(b) : m.k = "timer" /\ m.id = id})

\* setTimeout returns an id no pending timer carries.
FreshTimerId(b) ==
    LET used == {m.id : m \in {x \in BagToSet(b) : x.k = "timer"}}
    IN CHOOSE n \in 1..(Cardinality(used) + 1) :
           n \notin used /\ \A j \in 1..(n - 1) : j \in used

\* scheduleNextRefresh(tabId), on bag b with stored id rid.
scheduleNextRefresh(b, rid, tab) ==
    LET b1 == IF rid # Null THEN ClearTimeout(b, rid) ELSE b
        id == FreshTimerId(b1)
    IN [infl |-> Put(b1, Msg("timer", id, tab, Closed, NoConfig, 0, "")), rid |-> id]

\* A storage write that is not carried out.
storageSetSkipped(value) == persisted

\* chrome.storage.local.set({ automation_in_progress: value }) (lines 244,
\* 326): the value the store holds afterwards.
storageLocalSet(value) == value

\* resetState: the lifecycle message sent to the popup (line 248).
LifecycleEvent(level) ==
    IF level = "error" THEN "automation_aborted" ELSE "automation_finished"

\* resetState: whether the refresh loop is started (line 259).
StartsRefreshLoop(wasInProgress) ==
    wasInProgress /\ currentConfig.autoRefresh /\ baseTabId # Null

\* resetState(reason, level) run by handler `op` on bag b, after the handler
\* emitted fx0.
resetState(level, b, op, fx0) ==
    LET b1 == IF refreshTimeoutId # Null THEN ClearTimeout(b, refreshTimeoutId) ELSE b
        wasInProgress == automationInProgress
        s == scheduleNextRefresh(b1, Null, baseTabId)
        sched == StartsRefreshLoop(wasInProgress)
    IN /\ automationInProgress' = FALSE
       /\ activeTabId' = Null
       /\ persisted' = storageLocalSet(FALSE)
       /\ refreshTimeoutId' = IF sched THEN s.rid ELSE Null
       /\ inflight' = IF sched THEN s.infl ELSE b1
       /\ baseTabId' = Null
       /\ last' = [op |-> op,
                   fx |-> fx0 \cup {Fx("event", Null, 0, FALSE, LifecycleEvent(level))}
                              \cup (IF level = "error"
                                    THEN {Fx("alarm", Null, 0, FALSE, "")} ELSE {})]

\* sendResponse: only the first response of a message reaches the sender.
Respond(resp, id, status) ==
    IF resp[id] = "none" THEN [resp EXCEPT ![id] = status] ELSE resp

\* First onMessage listener (router): what it answers synchronously.
LegacyRouterResponse(action) ==
    IF action \in {"startBooking", "phase9_readyToAccept"} THEN "none" ELSE "error"

\* storage.local keys read by the first listener set: none written yet, or
\* both present.
LocalStores == {[vehicleClass |-> x, finalClickEnabled |-> x] : x \in BOOLEAN}

InitWith(budget) ==
    /\ automationInProgress = FALSE
    /\ activeTabId = Null
    /\ baseTabId = Null
    /\ currentConfig = NoConfig
    /\ refreshTimeoutId = Null
    /\ newRideTabId = Null
    /\ persisted = FALSE
    /\ optDomain \in DomainValues
    /\ localStore \in LocalStores
    /\ tabUrl = [t \in Tabs |-> IF t = 1 THEN UrlBase ELSE UrlEvil]
    /\ actors = [t \in Tabs |-> 0]
    /\ inflight = EmptyBag
    /\ startResp = <<>>
    /\ eventsLeft = budget
    /\ stopCause = ""
    /\ last = [op |-> "init", fx |-> {}]

\* No entry logged yet (storage.local.get({ logHistory: [] }) yields []).
LogEmpty ==
    /\ logHistory = <<>>
    /\ logReads = <<>>
    /\ logCount = 0

\* No URL has been handed to the navigation-pattern check.
NavIdle ==
    /\ navUrl = Closed
    /\ navResult = "unchecked"

\* A blank document: no booking rows, no selector, no confirmation control.
Undefined == [set |-> FALSE, val |-> <<>>]

Defined(v) == [set |-> TRUE, val |-> v]

Page(entries, loading, select, options, button, banner) ==
    [entries |-> entries, loading |-> loading, select |-> select, options |-> options,
     button |-> button, banner |-> banner]

BlankPage == Page(<<>>, FALSE, FALSE, {}, "absent", "absent")

Command(action, startDate, endDate, vehicleClasses, vehiclePrices) ==
    [action |-> action, startDate |-> startDate, endDate |-> endDate,
     vehicleClasses |-> vehicleClasses, vehiclePrices |-> vehiclePrices]

NoCall == Command("none", "", "", Undefined, {})

\* No command has reached the content script.
ActorQuiet ==
    /\ call = NoCall
    /\ answers = <<>>
    /\ clicked = <<>>
    /\ threw = FALSE
    /\ deferred = FALSE
    /\ winListener = FALSE
    /\ readySignals = 0

ActorIdle ==
    /\ page = BlankPage
    /\ winQueue = <<>>
    /\ ActorQuiet

\* isDateInRange has not been called on its own. The date texts of the
\* other specifications are all of one form, for which the zone makes no
\* difference.
NoDates == [actual |-> "", start |-> "", end |-> ""]

DateIdle ==
    /\ tzWest = FALSE
    /\ dateArgs = NoDates
    /\ dateResult = "unchecked"

\* The option scan has not been run on its own.
NoSelection == [selected |-> 0, posted |-> "none"]

SelectIdle ==
    /\ selectArgs = [options |-> <<>>, labels |-> <<>>]
    /\ selectResult = NoSelection

SideIdle == LogEmpty /\ NavIdle /\ ActorIdle /\ DateIdle /\ SelectIdle

Init == InitWith(MaxEvents) /\ SideIdle

InitWide == InitWith(MaxEventsWide) /\ SideIdle


\* ------------------------------------------------------- external events
\* Work of an earlier handler is outstanding (a pending auto-refresh timer is
\* a long wait, not outstanding work).
Busy == \E m \in BagToSet(inflight) : m.k # "timer"

\* An external event is taken within the event budget.
External ==
    LET cost == IF Busy THEN 2 ELSE 1
    IN /\ cost <= eventsLeft
       /\ eventsLeft' = eventsLeft - cost

\* ------------------------------------------------------ start (popup -> SW)
\* The in-progress check left out.
NoRunningCheck == FALSE

\* startAutomation: the in-progress check (line 282).
AlreadyRunning == automationInProgress

\* chrome.tabs.sendMessage / executeScript with tabId null throw synchronously.
Sendable(tab) == tab # Null

\* executePhaseN(): the command it sends to the tracked frame, as a set.
PhaseCommand(ph, tab, cfg) ==
    IF Sendable(tab) THEN {Msg("cmd", 0, tab, Closed, cfg, ph, "main")} ELSE {}

PhaseFx(ph, tab, cfg) ==
    IF Sendable(tab) THEN {Fx("cmd", tab, ph, cfg.isDryRun, "main")} ELSE {}

PutAll(b, ms) == b (+) SetToBag(ms)

\* onMessage, action startAutomation: both registered listeners run. The
\* router answers 'Unknown action'; the second listener clears the refresh
\* timer, rejects when a run is in progress, else queries the active tab.
UserStart(cfg) ==
    /\ UNCHANGED sideVars
    /\ External
    /\ LET id == Len(startResp) + 1
           r0 == Append(startResp, LegacyRouterResponse("startAutomation"))
           b1 == IF refreshTimeoutId # Null
                 THEN ClearTimeout(inflight, refreshTimeoutId) ELSE inflight
       IN /\ refreshTimeoutId' = Null
          /\ IF AlreadyRunning
             THEN /\ startResp' = Respond(r0, id, "error")
                  /\ inflight' = b1
                  /\ last' = [op |-> "startBusy", fx |-> {}]
             ELSE /\ startResp' = r0
                  /\ inflight' = Put(b1, Msg("tabsQuery", id, Null, Closed, cfg, 0, ""))
                  /\ last' = [op |-> "start", fx |-> {}]
    /\ stopCause' = IF AlreadyRunning THEN stopCause ELSE ""
    /\ UNCHANGED <<automationInProgress, activeTabId, baseTabId, currentConfig,
                   newRideTabId, persisted, optDomain, localStore, tabUrl, actors>>

\* chrome.tabs.query callback (lines 289-298); t is the active tab, Null if none.
StartQueryDone(m, t) ==
    /\ UNCHANGED sideVars
    /\ m \in Pending("tabsQuery")
    /\ IF t = Null THEN TRUE ELSE tabUrl[t] # Closed
    /\ IF t = Null
       THEN /\ startResp' = Respond(startResp, m.id, "error")
            /\ inflight' = Take(inflight, m)
            /\ last' = [op |-> "startNoTab", fx |-> {}]
            /\ UNCHANGED <<activeTabId, baseTabId>>
       ELSE /\ activeTabId' = t
            /\ baseTabId' = t
            /\ inflight' = Put(Take(inflight, m),
                               Msg("startOptions", m.id, t, tabUrl[t], m.cfg, 0, ""))
            /\ last' = [op |-> "startQuery", fx |-> {}]
            /\ UNCHANGED startResp
    /\ UNCHANGED <<automationInProgress, currentConfig, refreshTimeoutId, newRideTabId,
                   persisted, optDomain, localStore, tabUrl, actors, eventsLeft, stopCause>>

\* chrome.storage.sync.get callback (lines 298-320): the safety gate, then
\* executeScript on the tracked frame.
StartOptionsDone(m) ==
    /\ UNCHANGED sideVars
    /\ m \in Pending("startOptions")
    /\ IF ~checkDomain(m.url, optDomain)
       THEN /\ startResp' = Respond(startResp, m.id, "error")
            /\ inflight' = Take(inflight, m)
            /\ last' = [op |-> "startDenied", fx |-> {}]
       ELSE /\ UNCHANGED startResp
            /\ IF Sendable(activeTabId)
               THEN /\ inflight' = Put(Take(inflight, m),
                                      Msg("startInject", m.id, activeTabId, Closed, m.cfg, 0, ""))
                    /\ last' = [op |-> "startGate",
                                fx |-> {Fx("inject", activeTabId, 0, FALSE, "main")}]
               ELSE /\ inflight' = Take(inflight, m)
                    /\ last' = [op |-> "startThrow", fx |-> {}]
    /\ UNCHANGED <<automationInProgress, activeTabId, baseTabId, currentConfig,
                   refreshTimeoutId, newRideTabId, persisted, optDomain, localStore,
                   tabUrl, actors, eventsLeft, stopCause>>

\* executeScript promise (lines 320-335): .then starts the run and issues
\* Phase 6; .catch answers with an error.
StartInjectDone(m) ==
    /\ UNCHANGED sideVars
    /\ m \in Pending("startInject")
    /\ IF tabUrl[m.tab] # Closed
       THEN /\ actors' = [actors EXCEPT ![m.tab] = @ + 1]
            /\ automationInProgress' = TRUE
            /\ currentConfig' = m.cfg
            /\ persisted' = storageLocalSet(TRUE)
            /\ startResp' = Respond(startResp, m.id, "success")
            /\ inflight' = PutAll(Take(inflight, m), PhaseCommand(6, activeTabId, m.cfg))
            /\ last' = [op |-> "startRun", fx |-> PhaseFx(6, activeTabId, m.cfg)]
       ELSE /\ startResp' = Respond(startResp, m.id, "error")
            /\ inflight' = Take(inflight, m)
            /\ last' = [op |-> "startInjectFailed", fx |-> {}]
            /\ UNCHANGED <<actors, automationInProgress, currentConfig, persisted>>
    /\ UNCHANGED <<activeTabId, baseTabId, refreshTimeoutId, newRideTabId, optDomain,
                   localStore, tabUrl, eventsLeft, stopCause>>

\* ---------------------------------------------------------------- abort
\* abortAutomation: refused when nothing is running (line 343).
AbortRefused == ~automationInProgress /\ refreshTimeoutId = Null

UserAbort ==
    /\ UNCHANGED sideVars
    /\ External
    /\ IF AbortRefused
       THEN /\ last' = [op |-> "abortRefused", fx |-> {}]
            /\ UNCHANGED <<automationInProgress, activeTabId, baseTabId, persisted,
                           refreshTimeoutId, inflight>>
       ELSE resetState("info", inflight, "abort", {})
    /\ stopCause' = IF AbortRefused THEN stopCause ELSE "abort"
    /\ UNCHANGED <<currentConfig, newRideTabId, optDomain, localStore, tabUrl, actors,
                   startResp>>


\* ------------------------------------------------------------ Page Actor
\* A command reaches a content script only in an open frame that holds one.
Deliverable(m) == tabUrl[m.tab] # Closed /\ actors[m.tab] > 0

\* content.js performs the phase's DOM action whenever the page allows it;
\* the isDryRun field of the message is not read.
PerformsClick(m, pageOk) == pageOk

\* chrome.tabs.sendMessage delivery and the content script's handling of one
\* phase command. pageOk: the page satisfies the phase's preconditions.
\* Every executeScript into the frame's document registered one more
\* onMessage listener (content.js line 27), and each of them runs the phase:
\* the DOM action and Phase 8's ready signal occur once per listener, while
\* only the first sendResponse reaches the service worker. The ready signal
\* of a second listener is drawn from the event budget.
\* A command of the second listener set is answered (transport errors
\* included, sendMessageToContentScript lines 563-572); phase 8 success also
\* emits the ready signal. The first listener set's phase-9 command has no
\* callback.
ActorHandle(m, pageOk) ==
    /\ UNCHANGED sideVars
    /\ m \in Pending("cmd")
    /\ LET b == Take(inflight, m)
           click == Deliverable(m) /\ PerformsClick(m, pageOk)
           status == IF ~Deliverable(m) THEN "transport"
                     ELSE IF click THEN "success" ELSE "error"
           reply == IF m.st = "main"
                    THEN {Msg("resp", 0, m.tab, Closed, NoConfig, m.ph, status)} ELSE {}
           ready == IF click /\ m.ph = 8
                    THEN {Msg("ready", 0, m.tab, Closed, NoConfig, 9, "")} ELSE {}
           extra == IF ready # {} /\ actors[m.tab] > 1 /\ eventsLeft > 0 THEN 1 ELSE 0
       IN /\ inflight' = PutAll(b, reply) (+) [r \in ready |-> 1 + extra]
          /\ eventsLeft' = eventsLeft - extra
          /\ last' = [op |-> "actor",
                      fx |-> IF click
                             THEN {[Fx("click", m.tab, m.ph, m.cfg.isDryRun, m.st)
                                       EXCEPT !.n = actors[m.tab]]}
                             ELSE {}]
    /\ UNCHANGED <<automationInProgress, activeTabId, baseTabId, currentConfig,
                   refreshTimeoutId, newRideTabId, persisted, optDomain, localStore,
                   tabUrl, actors, startResp, stopCause>>

\* ------------------------------------------------- phase response callbacks
\* sendMessageToContentScript (lines 563-572): chrome.runtime.lastError is
\* handed to the phase callback as an error result.
sendMessageToContentScript(status) == IF status = "transport" THEN "error" ELSE status

\* executePhase6/8/9 callbacks (lines 387-394, 407-412, 422-428).
ResponseLevel(ph, status) ==
    IF sendMessageToContentScript(status) # "success" THEN "error"
    ELSE IF ph = 9 THEN "success" ELSE "none"

PhaseResponse(m) ==
    /\ UNCHANGED sideVars
    /\ m \in Pending("resp")
    /\ IF ResponseLevel(m.ph, m.st) = "none"
       THEN /\ inflight' = Take(inflight, m)
            /\ last' = [op |-> "phaseOk", fx |-> {}]
            /\ UNCHANGED <<automationInProgress, activeTabId, baseTabId, persisted,
                           refreshTimeoutId>>
       ELSE resetState(ResponseLevel(m.ph, m.st), Take(inflight, m),
                       IF m.st = "transport" THEN "sendFailed" ELSE "phaseEnd", {})
    /\ UNCHANGED <<currentConfig, newRideTabId, optDomain, localStore, tabUrl, actors,
                   startResp, eventsLeft, stopCause>>

\* ------------------------------------------------------------ ready signal
\* The guard with the start frame in place of the tracked frame.
ReadyFromStartFrame(sender) == automationInProgress /\ sender = baseTabId

\* Second listener: the phase9_readyToAccept guard (line 364).
ReadyAccepted(sender) == automationInProgress /\ sender = activeTabId

\* First listener: handleReadyToAccept's tab check (line 83).
LegacyReadyAccepted(sender) == sender = newRideTabId

\* onMessage, action phase9_readyToAccept: both registered listeners run.
ReadySignal(m) ==
    /\ UNCHANGED sideVars
    /\ m \in Pending("ready")
    /\ LET b == Take(inflight, m)
           b1 == IF LegacyReadyAccepted(m.tab)
                 THEN Put(b, Msg("legacyReadyGet", 0, Null, Closed, NoConfig, 0, ""))
                 ELSE b
       IN IF ReadyAccepted(m.tab)
          THEN /\ inflight' = PutAll(b1, PhaseCommand(9, activeTabId, currentConfig))
               /\ last' = [op |-> "ready", fx |-> PhaseFx(9, activeTabId, currentConfig)]
          ELSE /\ inflight' = b1
               /\ last' = [op |-> "readyIgnored", fx |-> {}]
    /\ UNCHANGED <<automationInProgress, activeTabId, baseTabId, currentConfig,
                   refreshTimeoutId, newRideTabId, persisted, optDomain, localStore,
                   tabUrl, actors, startResp, eventsLeft, stopCause>>

\* handleReadyToAccept's storage.local.get callback (lines 90-102).
LegacyReadyGetDone(m) ==
    /\ UNCHANGED sideVars
    /\ m \in Pending("legacyReadyGet")
    /\ IF localStore.finalClickEnabled /\ Sendable(newRideTabId)
       THEN /\ inflight' = Put(Take(inflight, m),
                               Msg("cmd", 0, newRideTabId, Closed, currentConfig, 9, "legacy"))
            /\ last' = [op |-> "legacyAccept",
                        fx |-> {Fx("cmd", newRideTabId, 9, currentConfig.isDryRun, "legacy")}]
       ELSE /\ inflight' = Take(inflight, m)
            /\ last' = [op |-> "legacyStop", fx |-> {}]
    /\ newRideTabId' = Null
    /\ UNCHANGED <<automationInProgress, activeTabId, baseTabId, currentConfig,
                   refreshTimeoutId, persisted, optDomain, localStore, tabUrl, actors,
                   startResp, eventsLeft, stopCause>>


\* ----------------------------------------------------- tab events (browser)
\* Second onUpdated listener: its synchronous guard (line 438).
NavListens == automationInProgress

\* tabs.onUpdated with status 'complete' for frame t, now showing url u: a
\* new document, so earlier content scripts of the frame are gone. Both
\* registered onUpdated listeners run.
TabUpdated(t, u) ==
    /\ UNCHANGED sideVars
    /\ External
    /\ tabUrl[t] # Closed
    /\ tabUrl' = [tabUrl EXCEPT ![t] = u]
    /\ actors' = [actors EXCEPT ![t] = 0]
    /\ newRideTabId' = IF IncludesNewRide(u) THEN t ELSE newRideTabId
    /\ LET b1 == IF IncludesNewRide(u)
                 THEN Put(inflight, Msg("legacyNavGet", 0, Null, Closed, NoConfig, 0, ""))
                 ELSE inflight
       IN inflight' = IF NavListens
                      THEN Put(b1, Msg("navOptions", 0, t, u, NoConfig, 0, ""))
                      ELSE b1
    /\ last' = [op |-> "tabUpdated", fx |-> {}]
    /\ UNCHANGED <<automationInProgress, activeTabId, baseTabId, currentConfig,
                   refreshTimeoutId, persisted, optDomain, localStore, startResp,
                   stopCause>>

\* Second onUpdated listener, storage.sync.get callback (lines 443-471).
NavOptionsDone(m) ==
    /\ UNCHANGED sideVars
    /\ m \in Pending("navOptions")
    /\ IF Falsy(optDomain)
       THEN IF activeTabId = m.tab
            THEN resetState("error", Take(inflight, m), "navNoDomain", {})
            ELSE /\ inflight' = Take(inflight, m)
                 /\ last' = [op |-> "navSkip", fx |-> {}]
                 /\ UNCHANGED <<automationInProgress, activeTabId, baseTabId, persisted,
                                refreshTimeoutId>>
       ELSE /\ IF checkNavigationPattern(m.url, optDomain)
               THEN /\ activeTabId' = m.tab
                    /\ inflight' = Put(Take(inflight, m),
                                       Msg("navInject", 0, m.tab, Closed, NoConfig, 0, ""))
                    /\ last' = [op |-> "navGate",
                                fx |-> {Fx("inject", m.tab, 0, FALSE, "main")}]
               ELSE /\ inflight' = Take(inflight, m)
                    /\ last' = [op |-> "navNoMatch", fx |-> {}]
                    /\ UNCHANGED activeTabId
            /\ UNCHANGED <<automationInProgress, baseTabId, persisted, refreshTimeoutId>>
    /\ UNCHANGED <<currentConfig, newRideTabId, optDomain, localStore, tabUrl, actors,
                   startResp, eventsLeft, stopCause>>

\* Second onUpdated listener, executeScript promise (lines 463-469): .then
\* runs executePhase8 (lines 397-413); a failed injection, or a throw of
\* sendMessage inside .then, lands in .catch.
NavInjectDone(m) ==
    /\ UNCHANGED sideVars
    /\ m \in Pending("navInject")
    /\ LET b == Take(inflight, m)
           injected == tabUrl[m.tab] # Closed
       IN /\ actors' = IF injected THEN [actors EXCEPT ![m.tab] = @ + 1] ELSE actors
          /\ IF ~injected
             THEN resetState("error", b, "navInjectFailed", {})
             ELSE IF ~automationInProgress
             THEN resetState("info", b, "phase8StateError", {})
             ELSE IF ~Sendable(activeTabId)
             THEN resetState("error", b, "phase8Throw", {})
             ELSE /\ inflight' = PutAll(b, PhaseCommand(8, activeTabId, currentConfig))
                  /\ last' = [op |-> "phase8", fx |-> PhaseFx(8, activeTabId, currentConfig)]
                  /\ UNCHANGED <<automationInProgress, activeTabId, baseTabId, persisted,
                                 refreshTimeoutId>>
    /\ UNCHANGED <<currentConfig, newRideTabId, optDomain, localStore, tabUrl,
                   startResp, eventsLeft, stopCause>>

\* tabs.onRemoved (lines 475-480).
TabRemoved(t) ==
    /\ UNCHANGED sideVars
    /\ External
    /\ tabUrl[t] # Closed
    /\ tabUrl' = [tabUrl EXCEPT ![t] = Closed]
    /\ actors' = [actors EXCEPT ![t] = 0]
    /\ IF t = activeTabId
       THEN resetState("info", inflight, "trackedClosed", {})
       ELSE /\ last' = [op |-> "tabClosed", fx |-> {}]
            /\ UNCHANGED <<automationInProgress, activeTabId, baseTabId, persisted,
                           refreshTimeoutId, inflight>>
    /\ stopCause' = IF t = activeTabId /\ automationInProgress THEN "closed" ELSE stopCause
    /\ UNCHANGED <<currentConfig, newRideTabId, optDomain, localStore, startResp>>

\* ------------------------------------------------ first onUpdated listener
\* storage.local.get(['vehicleClass']) callback (lines 117-128).
LegacyNavGetDone(m) ==
    /\ UNCHANGED sideVars
    /\ m \in Pending("legacyNavGet")
    /\ IF localStore.vehicleClass /\ Sendable(newRideTabId)
       THEN /\ inflight' = Put(Take(inflight, m),
                               Msg("legacyInject", 0, newRideTabId, Closed, NoConfig, 0, ""))
            /\ last' = [op |-> "legacyGate",
                        fx |-> {Fx("inject", newRideTabId, 0, FALSE, "legacy")}]
       ELSE /\ inflight' = Take(inflight, m)
            /\ last' = [op |-> "legacySkip", fx |-> {}]
    /\ UNCHANGED <<automationInProgress, activeTabId, baseTabId, currentConfig,
                   refreshTimeoutId, newRideTabId, persisted, optDomain, localStore,
                   tabUrl, actors, startResp, eventsLeft, stopCause>>

\* injectAndSendMessage (lines 136-155): executeScript, then the phase-8
\* command of the first listener set. The command carries vehicleClass, not
\* vehicleClasses: the content script throws on it before any DOM action and
\* never answers, and no callback was passed, so nothing stays in flight.
LegacyInjectDone(m) ==
    /\ UNCHANGED sideVars
    /\ m \in Pending("legacyInject")
    /\ IF tabUrl[m.tab] # Closed
       THEN /\ actors' = [actors EXCEPT ![m.tab] = @ + 1]
            /\ inflight' = Take(inflight, m)
            /\ last' = [op |-> "legacyPhase8",
                        fx |-> {Fx("cmd", m.tab, 8, currentConfig.isDryRun, "legacy")}]
       ELSE /\ inflight' = Take(inflight, m)
            /\ last' = [op |-> "legacyInjectFailed", fx |-> {}]
            /\ UNCHANGED actors
    /\ UNCHANGED <<automationInProgress, activeTabId, baseTabId, currentConfig,
                   refreshTimeoutId, newRideTabId, persisted, optDomain, localStore,
                   tabUrl, startResp, eventsLeft, stopCause>>

\* ------------------------------------------------------------ auto-refresh
\* The setTimeout callback of scheduleNextRefresh (lines 505-507).
TimerFires(m) ==
    /\ UNCHANGED sideVars
    /\ m \in Pending("timer")
    /\ inflight' = Put(Take(inflight, m), Msg("reload", 0, m.tab, Closed, NoConfig, 0, ""))
    /\ last' = [op |-> "timer", fx |-> {Fx("reload", m.tab, 0, FALSE, "")}]
    /\ UNCHANGED <<automationInProgress, activeTabId, baseTabId, currentConfig,
                   refreshTimeoutId, newRideTabId, persisted, optDomain, localStore,
                   tabUrl, actors, startResp, eventsLeft, stopCause>>

\* chrome.tabs.reload callback (lines 507-516). A reloaded frame loses its
\* content scripts.
ReloadDone(m) ==
    /\ UNCHANGED sideVars
    /\ m \in Pending("reload")
    /\ IF tabUrl[m.tab] = Closed
       THEN /\ resetState("error", Take(inflight, m), "reloadFailed", {})
            /\ UNCHANGED actors
       ELSE LET s == scheduleNextRefresh(Take(inflight, m), refreshTimeoutId, m.tab)
            IN /\ inflight' = s.infl
               /\ refreshTimeoutId' = s.rid
               /\ actors' = [actors EXCEPT ![m.tab] = 0]
               /\ last' = [op |-> "reloaded", fx |-> {}]
               /\ UNCHANGED <<automationInProgress, activeTabId, baseTabId, persisted>>
    /\ UNCHANGED <<currentConfig, newRideTabId, optDomain, localStore, tabUrl,
                   startResp, eventsLeft, stopCause>>

\* --------------------------------------------------------- options page
\* options.js saveOptions / resetOptions.
EditOptions(d) ==
    /\ UNCHANGED sideVars
    /\ External
    /\ d # optDomain
    /\ optDomain' = d
    /\ last' = [op |-> "options", fx |-> {}]
    /\ UNCHANGED <<automationInProgress, activeTabId, baseTabId, currentConfig,
                   refreshTimeoutId, newRideTabId, persisted, localStore, tabUrl,
                   actors, inflight, startResp, stopCause>>

Next ==
    \/ \E c \in Configs : UserStart(c)
    \/ \E m \in Pending("tabsQuery"), t \in Tabs \cup {Null} : StartQueryDone(m, t)
    \/ \E m \in Pending("startOptions") : StartOptionsDone(m)
    \/ \E m \in Pending("startInject") : StartInjectDone(m)
    \/ UserAbort
    \/ \E m \in Pending("cmd"), ok \in BOOLEAN : ActorHandle(m, ok)
    \/ \E m \in Pending("resp") : PhaseResponse(m)
    \/ \E m \in Pending("ready") : ReadySignal(m)
    \/ \E m \in Pending("legacyReadyGet") : LegacyReadyGetDone(m)
    \/ \E t \in Tabs, u \in URLs : TabUpdated(t, u)
    \/ \E m \in Pending("navOptions") : NavOptionsDone(m)
    \/ \E m \in Pending("navInject") : NavInjectDone(m)
    \/ \E t \in Tabs : TabRemoved(t)
    \/ \E m \in Pending("legacyNavGet") : LegacyNavGetDone(m)
    \/ \E m \in Pending("legacyInject") : LegacyInjectDone(m)
    \/ \E m \in Pending("timer") : TimerFires(m)
    \/ \E m \in Pending("reload") : ReloadDone(m)
    \/ \E d \in DomainValues : EditOptions(d)

Spec == Init /\ [][Next]_vars

SpecWide == InitWide /\ [][Next]_vars

\* ------------------------------------------------------ unattended runs
\* A run nobody interferes with: one start from the popup, then only the
\* browser acts. Every frame may finish loading the ride page at any moment;
\* no second start, no abort, no options edit, no tab closed.
UnattendedConfigs == {CfgAuto}

\* Callbacks and messages the browser has queued for the service worker and
\* the content scripts.
Callback ==
    \/ \E m \in Pending("tabsQuery"), t \in Tabs \cup {Null} : StartQueryDone(m, t)
    \/ \E m \in Pending("startOptions") : StartOptionsDone(m)
    \/ \E m \in Pending("startInject") : StartInjectDone(m)
    \/ \E m \in Pending("cmd"), ok \in BOOLEAN : ActorHandle(m, ok)
    \/ \E m \in Pending("resp") : PhaseResponse(m)
    \/ \E m \in Pending("ready") : ReadySignal(m)
    \/ \E m \in Pending("legacyReadyGet") : LegacyReadyGetDone(m)
    \/ \E m \in Pending("navOptions") : NavOptionsDone(m)
    \/ \E m \in Pending("navInject") : NavInjectDone(m)
    \/ \E m \in Pending("legacyNavGet") : LegacyNavGetDone(m)
    \/ \E m \in Pending("legacyInject") : LegacyInjectDone(m)

\* The auto-refresh timer and the reload it requests.
Refresh ==
    \/ \E m \in Pending("timer") : TimerFires(m)
    \/ \E m \in Pending("reload") : ReloadDone(m)

NextUnattended ==
    \/ \E c \in UnattendedConfigs : startResp = <<>> /\ UserStart(c)
    \/ \E t \in Tabs : TabUpdated(t, UrlRide)
    \/ Callback
    \/ Refresh

InitUnattended == InitWith(MaxEventsFair) /\ optDomain = DomABC /\ SideIdle

\* The event loop runs every queued callback and delivers every message in
\* the end, and a timer that stays armed fires: weak fairness on both.
SpecFair ==
    InitUnattended /\ [][NextUnattended]_vars /\ WF_vars(Callback) /\ WF_vars(Refresh)

TypeOK ==
    /\ automationInProgress \in BOOLEAN
    /\ activeTabId \in Tabs \cup {Null}
    /\ baseTabId \in Tabs \cup {Null}
    /\ currentConfig \in Configs \cup {NoConfig}
    /\ newRideTabId \in Tabs \cup {Null}
    /\ persisted \in BOOLEAN
    /\ optDomain \in DomainValues
    /\ \A t \in Tabs : tabUrl[t] \in URLs \cup {Closed}
    /\ eventsLeft \in 0..MaxEventsWide
    /\ stopCause \in {"", "abort", "closed"}

\* ------------------------------------------------- restart of the process
\* What outlives the service worker: a phase command already handed to a
\* frame is still carried out there, but its callback is gone (st "lost");
\* a ready signal on its way wakes the new process. Continuations of the
\* old process and its timers are lost.
Surviving(b) ==
    LET keep == {m \in BagToSet(b) : m.k \in {"cmd", "ready"}}
        lost(m) == IF m.k = "cmd" THEN [m EXCEPT !.st = "lost"] ELSE m
        image == {lost(m) : m \in keep}
        copies(x) == LET src == {m \in keep : lost(m) = x}
                     IN BagCardinality([m \in src |-> CopiesIn(m, b)])
    IN [x \in image |-> copies(x)]

\* The service worker is terminated and its script runs again from the top
\* (lines 168-179): the in-memory state gets its initial values. The
\* onStartup listener (lines 176-179) resets the persisted flag when the
\* restart is a browser start, which also discards every page; when the
\* browser only stopped and woke the idle worker it does not run.
Restart(browserStart) ==
    /\ UNCHANGED sideVars
    /\ External
    /\ automationInProgress' = FALSE
    /\ activeTabId' = Null
    /\ baseTabId' = Null
    /\ currentConfig' = NoConfig
    /\ refreshTimeoutId' = Null
    /\ newRideTabId' = Null
    /\ persisted' = IF browserStart THEN storageLocalSet(FALSE) ELSE persisted
    /\ inflight' = IF browserStart THEN EmptyBag ELSE Surviving(inflight)
    /\ actors' = IF browserStart THEN [t \in Tabs |-> 0] ELSE actors
    /\ last' = [op |-> IF browserStart THEN "browserStart" ELSE "restart", fx |-> {}]
    /\ UNCHANGED <<optDomain, localStore, tabUrl, startResp, stopCause>>

NextRestart == Next \/ \E browserStart \in BOOLEAN : Restart(browserStart)

SpecRestart == Init /\ [][NextRestart]_vars

\* ======================================================================
\* The persisted log (log(), lines 205-224, and the popup's Clear button)
\* ======================================================================
\* `if (history.length > 100)`.
LogLimit == 100

\* history.push(logEntry), then the trim to the last 100 entries.
pushAndTrim(history, entry) ==
    LET h == Append(history, entry)
    IN IF Len(h) > LogLimit
       THEN SubSeq(h, Len(h) - LogLimit + 1, Len(h))
       ELSE h

\* A history of k earlier entries (numbered 1-k .. 0); new entries are
\* numbered from 1.
Logged(k) == [i \in 1..k |-> i - k]

\* log(text, level): the entry is built and chrome.storage.local.get is
\* issued; storage serves requests in the order issued, so the callback will
\* receive the history stored now.
LogCall ==
    /\ logCount < MaxLogCalls
    /\ logCount' = logCount + 1
    /\ logReads' = Append(logReads, [entry |-> logCount + 1, data |-> logHistory])
    /\ UNCHANGED <<logHistory, ctlVars, navVars, actorVars, dateVars, selectVars>>

\* The storage.local.get callback of log(): push, trim, storage.local.set.
LogGetDone ==
    /\ logReads # <<>>
    /\ logHistory' = pushAndTrim(Head(logReads).data, Head(logReads).entry)
    /\ logReads' = Tail(logReads)
    /\ UNCHANGED <<logCount, ctlVars, navVars, actorVars, dateVars, selectVars>>

\* The popup's Clear button: chrome.storage.local.set({ logHistory: [] }).
ClearLogs ==
    /\ logHistory # <<>>
    /\ logHistory' = <<>>
    /\ UNCHANGED <<logReads, logCount, ctlVars, navVars, actorVars, dateVars, selectVars>>

InitLog ==
    /\ InitWith(0)
    /\ optDomain = DomABC
    /\ ~localStore.vehicleClass
    /\ logHistory \in {Logged(0), Logged(LogLimit - 1), Logged(LogLimit)}
    /\ logReads = <<>>
    /\ logCount = 0
    /\ NavIdle
    /\ ActorIdle
    /\ DateIdle
    /\ SelectIdle

NextLog ==
    \/ LogCall
    \/ LogGetDone
    \/ ClearLogs

SpecLog == InitLog /\ [][NextLog]_vars

\* ------------------------------------------ the navigation pattern alone
\* URLs a frame can report on load: a scheme, "://", a host as long as the
\* configured domain that differs from it in any set of positions, a path.
NavSchemes == {<<"http">>, <<"http", "s">>, <<"ftp">>}

NavHosts(dom) ==
    {[i \in 1..Len(dom) |-> IF i \in S THEN "x" ELSE dom[i]] : S \in SUBSET (1..Len(dom))}

NavPaths == {<<"/new-ride/", "1">>, <<"/", "l">>, <<"/", "l", "/new-ride/">>}

NavURLs ==
    {sc \o <<"://">> \o h \o pa : sc \in NavSchemes, h \in NavHosts(DomABC.val), pa \in NavPaths}

\* onUpdated's storage callback, lines 443-454: no verdict without a domain,
\* else tab.url.match(urlPattern).
NavCheck ==
    /\ navResult = "unchecked"
    /\ navResult' = IF ~Falsy(optDomain) /\ checkNavigationPattern(navUrl, optDomain)
                    THEN "match" ELSE "nomatch"
    /\ UNCHANGED <<navUrl, ctlVars, logVars, actorVars, dateVars, selectVars>>

InitNav ==
    /\ InitWith(0)
    /\ ~localStore.vehicleClass
    /\ LogEmpty
    /\ ActorIdle
    /\ DateIdle
    /\ SelectIdle
    /\ navUrl \in NavURLs
    /\ navResult = "unchecked"

NextNav == NavCheck

SpecNav == InitNav /\ [][NextNav]_vars

\* ------------------------------------------- the content script alone
\* Bound on the booking rows of a page.
MaxEntries == 2

\* new Date(str) then setHours(0, 0, 0, 0): the day a date string denotes;
\* NaN for the empty string and for text that is no date.
InvalidDate == 0

DateStrings == {"", "soon", "2025-06-01", "2025-06-02", "2025-06-03"}

\* The calendar day a date text names (May 31 is day 1); NaN for text that
\* Date cannot parse.
writtenDay(str) ==
    CASE str \in {"05/31/2025"} -> 1
      [] str \in {"2025-06-01", "06/01/2025"} -> 2
      [] str \in {"2025-06-02", "06/02/2025"} -> 3
      [] str \in {"2025-06-03", "06/03/2025"} -> 4
      [] OTHER -> InvalidDate

\* Date parses the date-only ISO form as midnight UTC and every other form
\* as local time.
IsoDateOnly(str) == str \in {"2025-06-01", "2025-06-02", "2025-06-03"}

\* new Date(str) followed by setHours(0, 0, 0, 0), which moves the instant to
\* local midnight: west of UTC, midnight UTC falls on the day before.
parseDate(str) ==
    IF writtenDay(str) = InvalidDate THEN InvalidDate
    ELSE IF IsoDateOnly(str) /\ tzWest THEN writtenDay(str) - 1
    ELSE writtenDay(str)

\* isDateInRange: exact day when no end date is given, else inclusive range.
isDateInRange(actualDateStr, startDateStr, endDateStr) ==
    LET actualDate == parseDate(actualDateStr)
        startDate == parseDate(startDateStr)
        endDate == parseDate(endDateStr)
    IN IF actualDate = InvalidDate \/ startDate = InvalidDate THEN FALSE
       ELSE IF endDateStr = "" THEN actualDate = startDate
       ELSE IF endDate = InvalidDate THEN FALSE
       ELSE actualDate >= startDate /\ actualDate <= endDate

\* String.prototype.toLowerCase on the labels in use.
toLowerCase(str) ==
    CASE str = "Sedan" -> "sedan"
      [] str = "SEDAN" -> "sedan"
      [] str = "Van" -> "van"
      [] OTHER -> str

\* A div.row.the_booking element: rendered or not, with or without its
\* .booking_date / .vehicle_class children, the text of both, its
\* span.partner_payout (absent, or its text as parseFloat reads it) and its
\* onclick attribute.
Entry(visible, fields, date, label, payout, onclick) ==
    [visible |-> visible, fields |-> fields, date |-> date, label |-> label,
     payout |-> payout, onclick |-> onclick]

NoPayout == [el |-> FALSE, num |-> FALSE, val |-> 0]

PayoutText == [el |-> TRUE, num |-> FALSE, val |-> 0]

Payout(v) == [el |-> TRUE, num |-> TRUE, val |-> v]

GoodEntry == Entry(TRUE, TRUE, "2025-06-02", "sedan", Payout(60), "open")

\* Rows that differ from GoodEntry in one respect.
Entries ==
    {GoodEntry}
    \cup {[GoodEntry EXCEPT !.visible = FALSE], [GoodEntry EXCEPT !.fields = FALSE]}
    \cup {[GoodEntry EXCEPT !.date = d] : d \in {"2025-06-03", "soon"}}
    \cup {[GoodEntry EXCEPT !.label = l] : l \in {"SEDAN", "Van"}}
    \cup {[GoodEntry EXCEPT !.payout = p] : p \in {NoPayout, PayoutText, Payout(10)}}
    \cup {[GoodEntry EXCEPT !.onclick = o] : o \in {"absent", "other"}}

EntryLists == UNION {[1..n -> Entries] : n \in 0..MaxEntries}

\* Text of the enabled options of #vehicle, and text().includes(targetText).
OptionTexts == {"Sedan Plus", "Van"}

TextIncludes(text, targetText) ==
    \/ text = targetText
    \/ text = "Sedan Plus" /\ targetText \in {"Sedan", "Plus"}

Rendering == {"absent", "hidden", "visible"}

\* The booking list, or the ride page with its selector, confirmation control
\* and error banner.
Pages ==
    {Page(es, FALSE, FALSE, {}, "absent", "absent") : es \in EntryLists}
    \cup {Page(<<>>, ld, sel, IF sel THEN os ELSE {}, bt, bn) :
            ld \in BOOLEAN, sel \in BOOLEAN, os \in SUBSET OptionTexts,
            bt \in Rendering, bn \in Rendering}

\* Minimum payouts per class, as the popup collects them.
NoPrices == {}

SedanPrice == {[cls |-> "Sedan", min |-> 50]}

\* Commands the service worker sends.
Commands ==
    {Command("phase6_clickBooking", sd, ed, vc, vp) :
        sd \in {"2025-06-02"}, ed \in {"", "2025-06-03"},
        vc \in {Undefined, Defined(<<"Sedan">>), Defined(<<"Van", "Sedan">>)},
        vp \in {NoPrices, SedanPrice}}
    \cup {Command("phase8_selectVehicle", "", "", vc, {}) :
            vc \in {Undefined, Defined(<<>>), Defined(<<"Sedan">>)}}
    \cup {Command("phase9_acceptRide", "", "", Undefined, {})}

\* What a handler did synchronously: the responses it sent, the elements it
\* clicked, whether an exception left it, what it posted to the window.
Did(ans, clk, thr, posted) ==
    [answers |-> ans, clicks |-> clk, threw |-> thr, posted |-> posted]

isElementVisible(el) == el.visible

\* Lines 95-105: dateMatch && vehicleMatch.
phase6Matches(el, c) ==
    /\ isDateInRange(el.date, c.startDate, c.endDate)
    /\ \E i \in 1..Len(c.vehicleClasses.val) :
           toLowerCase(c.vehicleClasses.val[i]) = toLowerCase(el.label)

\* The loop of phase6_clickBooking: index of the row it stops at, 0 if it
\* runs to the end.
FirstMatch(es, c) ==
    LET hits == {i \in 1..Len(es) :
                    /\ isElementVisible(es[i])
                    /\ es[i].fields
                    /\ phase6Matches(es[i], c)}
    IN IF hits = {} THEN 0 ELSE CHOOSE i \in hits : \A j \in hits : i <= j

phase6_clickBooking(pg, c) ==
    IF Len(pg.entries) = 0 THEN Did(<<"error">>, <<>>, FALSE, <<>>)
    ELSE IF ~c.vehicleClasses.set THEN Did(<<>>, <<>>, TRUE, <<>>)
    ELSE LET i == FirstMatch(pg.entries, c)
         IN IF i = 0 THEN Did(<<"error">>, <<>>, FALSE, <<>>)
            ELSE IF pg.entries[i].onclick = "absent" THEN Did(<<>>, <<>>, TRUE, <<>>)
            ELSE Did(<<"success">>, <<i>>, FALSE, <<>>)

\* The script Phase 8 injects into the page: what it posts to the window.
injectedScript(pg, c) ==
    IF /\ pg.select
       /\ \E i \in 1..Len(c.vehicleClasses.val) :
              \E text \in pg.options : TextIncludes(text, c.vehicleClasses.val[i])
    THEN "success" ELSE "error"

\* execute of phase8_selectVehicle: throws on vehicleClasses.join, else
\* registers the window listener and runs the injected script.
execute(pg, c) ==
    IF ~c.vehicleClasses.set THEN Did(<<>>, <<>>, TRUE, <<>>)
    ELSE Did(<<>>, <<>>, FALSE, <<injectedScript(pg, c)>>)

\* Phase 9 without its error-banner test.
phase9ClicksDespiteBanner(pg) ==
    IF pg.button # "visible" THEN Did(<<"error">>, <<>>, FALSE, <<>>)
    ELSE Did(<<"success">>, <<"final">>, FALSE, <<>>)

phase9_acceptRide(pg) ==
    IF pg.button # "visible" THEN Did(<<"error">>, <<>>, FALSE, <<>>)
    ELSE IF pg.banner = "visible" THEN Did(<<"error">>, <<>>, FALSE, <<>>)
    ELSE Did(<<"success">>, <<"final">>, FALSE, <<>>)

\* The state a handler's synchronous part leaves.
Apply(d) ==
    /\ answers' = answers \o d.answers
    /\ clicked' = clicked \o d.clicks
    /\ threw' = d.threw
    /\ winListener' = (d.posted # <<>>)
    /\ winQueue' = winQueue \o d.posted

\* chrome.runtime.onMessage listener of the content script (lines 27-49).
ActorReceive(c) ==
    /\ call = NoCall
    /\ call' = c
    /\ IF c.action = "phase6_clickBooking"
       THEN Apply(phase6_clickBooking(page, c)) /\ UNCHANGED deferred
       ELSE IF c.action = "phase9_acceptRide"
       THEN Apply(phase9_acceptRide(page)) /\ UNCHANGED deferred
       ELSE IF page.loading
       THEN /\ deferred' = TRUE
            /\ UNCHANGED <<answers, clicked, threw, winListener, winQueue>>
       ELSE Apply(execute(page, c)) /\ UNCHANGED deferred
    /\ UNCHANGED <<page, readySignals, ctlVars, logVars, navVars, dateVars, selectVars>>

\* The document finishes loading: a deferred Phase 8 executes (line 223).
DomContentLoaded ==
    /\ page.loading
    /\ page' = [page EXCEPT !.loading = FALSE]
    /\ deferred' = FALSE
    /\ IF deferred
       THEN Apply(execute(page, call))
       ELSE UNCHANGED <<answers, clicked, threw, winListener, winQueue>>
    /\ UNCHANGED <<call, readySignals, ctlVars, logVars, navVars, dateVars, selectVars>>

\* The window dispatches its next message. Phase 8's listener (lines
\* 201-212, registered with once: true) is removed by whatever it receives
\* and answers only a message of type FROM_CONTENT_SCRIPT.
WindowMessage ==
    /\ winQueue # <<>>
    /\ winQueue' = Tail(winQueue)
    /\ winListener' = FALSE
    /\ IF winListener /\ Head(winQueue) # "other"
       THEN /\ answers' = Append(answers, Head(winQueue))
            /\ readySignals' = readySignals + (IF Head(winQueue) = "success" THEN 1 ELSE 0)
       ELSE UNCHANGED <<answers, readySignals>>
    /\ UNCHANGED <<page, call, clicked, threw, deferred, ctlVars, logVars, navVars, dateVars, selectVars>>

\* A frame with its page, possibly with a message of the page's own still
\* to be dispatched, and a content script that has received nothing yet.
InitActor ==
    /\ InitWith(0)
    /\ optDomain = DomABC
    /\ ~localStore.vehicleClass
    /\ LogEmpty
    /\ NavIdle
    /\ DateIdle
    /\ SelectIdle
    /\ page \in Pages
    /\ winQueue \in {<<>>, <<"other">>}
    /\ ActorQuiet

NextActor ==
    \/ \E c \in Commands : ActorReceive(c)
    \/ DomContentLoaded
    \/ WindowMessage

SpecActor == InitActor /\ [][NextActor]_vars

\* ------------------------------------------- the date window predicate alone
\* Date texts a page shows: those the popup's date inputs deliver (empty, no
\* date at all, the date-only ISO form) and a form with slashes.
DateTexts == DateStrings \cup {"05/31/2025", "06/01/2025", "06/02/2025", "06/03/2025"}

\* phase6_clickBooking line 95: the call of isDateInRange.
DateCheck ==
    /\ dateResult = "unchecked"
    /\ dateResult' = IF isDateInRange(dateArgs.actual, dateArgs.start, dateArgs.end)
                     THEN "true" ELSE "false"
    /\ UNCHANGED <<tzWest, dateArgs, ctlVars, logVars, navVars, actorVars, selectVars>>

InitDate ==
    /\ InitWith(0)
    /\ optDomain = DomABC
    /\ ~localStore.vehicleClass
    /\ LogEmpty
    /\ NavIdle
    /\ ActorIdle
    /\ SelectIdle
    /\ tzWest \in BOOLEAN
    /\ dateArgs \in [actual : DateTexts, start : DateStrings, end : DateStrings]
    /\ dateResult = "unchecked"

NextDate == DateCheck

SpecDate == InitDate /\ [][NextDate]_vars

\* --------------------------------------------- the option scan of Phase 8
\* Bound on the options of the selector.
MaxOptions == 2

\* An option element of #vehicle.
SelectOption(text, disabled) == [text |-> text, disabled |-> disabled]

OptionLists ==
    UNION {[1..n -> {SelectOption(t, d) : t \in OptionTexts, d \in BOOLEAN}] :
              n \in 0..MaxOptions}

\* JSON.stringify(vehicleClasses): the labels in configured order.
LabelLists == {<<>>, <<"Sedan">>, <<"Van">>, <<"Sedan", "Van">>, <<"Van", "Sedan">>}

\* Index of the least element of a set of indices, 0 for the empty set.
First(S) == IF S = {} THEN 0 ELSE CHOOSE i \in S : \A j \in S : i <= j

\* The scan taken over the options first: the first enabled option that
\* contains any of the labels.
scanOptionsFirst(options, labels) ==
    First({i \in 1..Len(options) :
              /\ ~options[i].disabled
              /\ \E k \in 1..Len(labels) : TextIncludes(options[i].text, labels[k])})

\* $select.find('option:not(:disabled)').filter(includes(targetText)).first()
\* (lines 172-174): index of that option, 0 if there is none.
firstOptionFor(options, targetText) ==
    First({i \in 1..Len(options) :
              ~options[i].disabled /\ TextIncludes(options[i].text, targetText)})

\* The loop `for (const targetText of vehicleClasses)` (lines 170-182): the
\* option selected, 0 if the loop ends without a match.
RECURSIVE selectVehicle(_, _)
selectVehicle(options, labels) ==
    IF labels = <<>> THEN 0
    ELSE IF firstOptionFor(options, Head(labels)) # 0
    THEN firstOptionFor(options, Head(labels))
    ELSE selectVehicle(options, Tail(labels))

\* The injected script on a page that has the selector (lines 147-196): the
\* option it selects with a change notification, and what it posts.
SelectRun ==
    /\ selectResult = NoSelection
    /\ LET i == selectVehicle(selectArgs.options, selectArgs.labels)
       IN selectResult' = [selected |-> i,
                           posted |-> IF i # 0 THEN "success" ELSE "error"]
    /\ UNCHANGED <<selectArgs, ctlVars, logVars, navVars, actorVars, dateVars>>

InitSelect ==
    /\ InitWith(0)
    /\ optDomain = DomABC
    /\ ~localStore.vehicleClass
    /\ LogEmpty
    /\ NavIdle
    /\ ActorIdle
    /\ DateIdle
    /\ selectArgs \in [options : OptionLists, labels : LabelLists]
    /\ selectResult = NoSelection

NextSelect == SelectRun

SpecSelect == InitSelect /\ [][NextSelect]_vars



\* ======================================================================
\* Properties
\* ======================================================================
\* Effects of the given kinds recorded in l (a value of `last`).
IssuedIn(l, kinds) == {f \in l.fx : f.k \in kinds}

Issued(kinds) == IssuedIn(last, kinds)

\* Effects of the second listener set (the automation run's own handlers).
IssuedByRun(kinds) == {f \in Issued(kinds) : f.tag # "legacy"}

\* Continuations of kind k consumed by the step.
Handled(k) == {m \in Pending(k) : CopiesIn(m, inflight') < CopiesIn(m, inflight)}

\* The step receives a start command (only UserStart extends startResp).
StartReceived == Len(startResp') = Len(startResp) + 1

\* ---------------------------------------------------------------- C1
\* What the gate must allow: the allow-listed domain is set and non-empty
\* and the URL the request saw contains it.
GateAllows(m) ==
    /\ optDomain.set
    /\ optDomain.val # <<>>
    /\ m.url # Closed
    /\ Includes(m.url, optDomain.val)

\* C1: the start gate fails closed. A start request whose domain is unset or
\* empty, or whose frame URL does not contain the domain, is answered with an
\* error, injects nothing, sends no phase command, creates no injection
\* continuation and leaves inProgress as it was; an injection by the start
\* handler, its continuation, a Phase 6 command and the setting of inProgress
\* occur only downstream of a request the gate allows.
C1_StartGateFailsClosed ==
    [][ /\ \A m \in Handled("startOptions") :
              ~GateAllows(m) =>
                  /\ startResp'[m.id] = "error"
                  /\ IssuedIn(last', {"inject", "cmd"}) = {}
                  /\ Pending("startInject")' \subseteq Pending("startInject")
                  /\ automationInProgress' = automationInProgress
        /\ Pending("startInject")' \subseteq Pending("startInject")
              \/ \E m \in Handled("startOptions") : GateAllows(m)
        /\ \A f \in IssuedIn(last', {"inject"}) :
              (f.tag = "main" /\ Handled("navOptions") = {})
                  => \E m \in Handled("startOptions") : GateAllows(m)
        /\ \A f \in IssuedIn(last', {"cmd"}) :
              f.ph = 6 => Handled("startInject") # {}
        /\ (automationInProgress' /\ ~automationInProgress)
              => Handled("startInject") # {}
      ]_vars

\* A start on a frame outside the configured domain has just been denied.
C1_Witness ==
    /\ last.op = "startDenied"
    /\ ~Falsy(optDomain)
    /\ activeTabId # Null
    /\ ~Includes(tabUrl[activeTabId], optDomain.val)
    /\ ~automationInProgress

\* ---------------------------------------------------------------- C2
\* C2: every script injection and every phase command targets a frame whose
\* URL is on the configured allow-listed domain (contains it, as the start
\* gate requires, or matches the navigation pattern built from it).
C2_OnlyApprovedFrames ==
    \A f \in Issued({"inject", "cmd"}) :
        \/ f.url = Closed
        \/ /\ ~Falsy(optDomain)
           /\ \/ Includes(f.url, optDomain.val)
              \/ checkNavigationPattern(f.url, optDomain)

\* ---------------------------------------------------------------- C3
\* C3: a start command received while a run is in progress is answered with
\* an error, leaves inProgress, the target frame, the base frame, the
\* configuration and the persisted flag untouched, injects nothing, sends no
\* command and begins no start sequence.
C3_SingleRun ==
    [][ (StartReceived /\ automationInProgress) =>
            /\ startResp'[Len(startResp')] = "error"
            /\ UNCHANGED <<automationInProgress, activeTabId, baseTabId,
                           currentConfig, persisted>>
            /\ IssuedIn(last', {"inject", "cmd"}) = {}
            /\ Pending("tabsQuery")' \subseteq Pending("tabsQuery")
      ]_vars

\* A second start has just been rejected while the first run is in progress.
C3_Witness ==
    /\ last.op = "startBusy"
    /\ Len(startResp) >= 2
    /\ automationInProgress
    /\ persisted

\* ---------------------------------------------------------------- C4
\* C4: once an explicit abort has been handled, inProgress is false in memory
\* and in the persisted flag and no auto-refresh timer is pending.
C4_AbortStopsEverything ==
    last.op = "abort" =>
        /\ ~automationInProgress
        /\ ~persisted
        /\ Pending("timer") = {}
        /\ refreshTimeoutId = Null

\* ---------------------------------------------------------------- C5
\* C5: after an explicit abort of a run, and until the next start command,
\* the run's handlers issue no injection, phase command or frame reload. It
\* is stated for runs without auto-refresh, where nothing but work that was
\* in flight at the abort can act.
C5_QuietAfterAbort ==
    (stopCause = "abort" /\ ~currentConfig.autoRefresh) =>
        IssuedByRun({"inject", "cmd", "reload"}) = {}

\* ---------------------------------------------------------------- C6
\* C6: an Actor failure reported to a run in progress is answered by a reload
\* of the phase's frame and the run stays in progress (the configured maximum
\* of retries is at least one, and the failure is the run's first).
C6_FailureIsRetried ==
    [][ (automationInProgress /\ \E m \in Handled("resp") : m.st = "error") =>
            /\ automationInProgress'
            /\ IssuedIn(last', {"reload"}) # {}
      ]_vars

\* ---------------------------------------------------------------- C7
\* C7: after the tracked frame of a run was closed, and until the next start
\* command, inProgress and the persisted flag are false and the run's
\* handlers send no phase command, injection or frame reload.
C7_ClosedFrameEndsRun ==
    stopCause = "closed" =>
        /\ ~automationInProgress
        /\ ~persisted
        /\ IssuedByRun({"inject", "cmd", "reload"}) = {}

\* ---------------------------------------------------------------- C8
\* C8: no real click or selection is performed on the page for a command of
\* a run whose configuration has the dry-run flag set.
C8_DryRunNeverClicks ==
    \A f \in Issued({"click"}) : ~f.dry

\* ---------------------------------------------------------------- C9
\* C9: the run's handlers command a phase only if the run configuration
\* enables it.
C9_DisabledPhaseNeverCommanded ==
    \A f \in IssuedByRun({"cmd"}) : f.ph \in currentConfig.enabledPhases

\* --------------------------------------------------------------- C10
\* C10: before any start command has been received, no script is injected
\* and no phase command is sent.
C10_NothingBeforeStart ==
    startResp = <<>> => Issued({"inject", "cmd"}) = {}

\* --------------------------------------------------------------- C11
\* C11: in the auto-refresh loop every completed reload is followed by a
\* restart of the run (the Actor is re-established, inProgress is set and a
\* Phase 6 command is issued) before the loop reloads again; in particular
\* the handler of a reload completion is never followed directly by the next
\* reload of the loop. It is stated for a loop entered from a failed or
\* completed run (not from an abort or a closed frame).
C11_RefreshRestartsRun ==
    [][ ~(/\ last.op = "reloaded"
          /\ stopCause = ""
          /\ ~automationInProgress
          /\ IssuedIn(last', {"reload"}) # {}) ]_vars

\* --------------------------------------------------------------- C12
\* C12: every write of log() leaves at most 100 entries stored, and a write
\* that finds 100 entries stored evicts exactly the oldest one and appends the
\* new entry behind the others, whose order it keeps.
C12_LogIsBoundedFifo ==
    [][ (logReads # <<>> /\ logReads' = Tail(logReads)) =>
            /\ Len(logHistory') <= LogLimit
            /\ Len(logHistory) = LogLimit =>
                   logHistory' = Append(Tail(logHistory), Head(logReads).entry)
      ]_vars

\* --------------------------------------------------------------- C13
\* C13: the UI receives success for a start command exactly when that command
\* started the run: the step that starts a run (injection succeeded,
\* inProgress set, Phase 6 issued) leaves success as the response of its
\* command, and a command holds the response success only if it has started
\* a run.
C13_StartResponseTellsOutcome ==
    [][ /\ \A m \in Handled("startInject") :
              last'.op = "startRun" => startResp'[m.id] = "success"
        /\ \A id \in 1..Len(startResp') :
              (startResp'[id] = "success" /\ (id > Len(startResp) \/ startResp[id] # "success"))
                  => /\ last'.op = "startRun"
                     /\ \E m \in Handled("startInject") : m.id = id
      ]_vars

\* --------------------------------------------------------------- C14
\* Parts of an absolute URL: the scheme before "://", the host up to the
\* first path token, the path from there on.
UrlSep(url) == CHOOSE i \in 1..Len(url) : url[i] = "://"

UrlPathStart(url) ==
    CHOOSE i \in (UrlSep(url) + 1)..Len(url) :
        /\ url[i] \in {"/", "/new-ride/"}
        /\ \A j \in (UrlSep(url) + 1)..(i - 1) : url[j] \notin {"/", "/new-ride/"}

UrlScheme(url) == SubSeq(url, 1, UrlSep(url) - 1)

UrlHost(url) == SubSeq(url, UrlSep(url) + 1, UrlPathStart(url) - 1)

\* C14: the navigation-pattern check reports a match only for a URL whose
\* scheme is http or https, whose host equals the configured domain character
\* for character and whose path begins with /new-ride/.
C14_PatternMatchesExactHost ==
    navResult = "match" =>
        /\ UrlScheme(navUrl) \in {<<"http">>, <<"http", "s">>}
        /\ UrlHost(navUrl) = optDomain.val
        /\ navUrl[UrlPathStart(navUrl)] = "/new-ride/"

\* --------------------------------------------------------------- C15
\* Minimum payouts configured for the class a row displays.
ThresholdsFor(el, c) ==
    {p \in c.vehiclePrices : toLowerCase(p.cls) = toLowerCase(el.label)}

\* The match predicate as stated: date in the window, class among the
\* configured ones ignoring case, and the payout numeric and at least the
\* minimum when a minimum is configured for the class.
MustAccept(el, c) ==
    /\ isDateInRange(el.date, c.startDate, c.endDate)
    /\ \E i \in 1..Len(c.vehicleClasses.val) :
           toLowerCase(c.vehicleClasses.val[i]) = toLowerCase(el.label)
    /\ \A p \in ThresholdsFor(el, c) :
           el.payout.el /\ el.payout.num /\ el.payout.val >= p.min

Rendered(el) == el.visible /\ el.fields

\* C15: Phase 6 accepts a rendered booking row exactly when its date lies in
\* the configured window, its class is a configured class ignoring case and,
\* if a minimum payout is configured for that class, its payout is numeric
\* and at least that minimum: the row it clicks satisfies all three, and it
\* reports no match only if no rendered row does.
C15_MatchPredicate ==
    (call.action = "phase6_clickBooking" /\ ~threw) =>
        /\ \A k \in 1..Len(clicked) : MustAccept(page.entries[clicked[k]], call)
        /\ clicked = <<>> =>
               \A i \in 1..Len(page.entries) :
                   Rendered(page.entries[i]) => ~MustAccept(page.entries[i], call)

\* --------------------------------------------------------------- C16
\* Rows that qualify: rendered, and matching on date and class (the match
\* predicates the content script evaluates; the payout is C15's subject).
Qualifying(pg, c) ==
    {i \in 1..Len(pg.entries) :
        Rendered(pg.entries[i]) /\ phase6Matches(pg.entries[i], c)}

\* C16: Phase 6 clicks at most one row per command. If some row qualifies it
\* clicks exactly the first qualifying row in document order and answers
\* success; if none qualifies it clicks nothing and answers with an error.
C16_ClicksFirstMatchOnly ==
    call.action = "phase6_clickBooking" =>
        LET q == Qualifying(page, call)
        IN IF q = {}
           THEN clicked = <<>> /\ answers = <<"error">>
           ELSE /\ clicked = <<CHOOSE i \in q : \A j \in q : i <= j>>
                /\ answers = <<"success">>

ActorSettled ==
    /\ call # NoCall
    /\ ~deferred
    /\ ~page.loading
    /\ winQueue = <<>>

\* C18: every phase command is answered exactly once, with success or with
\* an error: no second result is ever sent, no exception leaves the handler,
\* and once the content script has nothing left to do for the command, one
\* result has been sent.
C18_AnsweredExactlyOnce ==
    /\ Len(answers) <= 1
    /\ ~threw
    /\ ActorSettled => Len(answers) = 1

\* --------------------------------------------------------------- C19
\* C19: start requests are serialised. The start sequence injects the content
\* script only while no run is in progress and no other start request has an
\* injection outstanding, and the completion of a start's injection begins a
\* run (sets inProgress, issues Phase 6) only while no run is in progress: of
\* two overlapping start requests at most one starts a run.
C19_StartsAreSerialised ==
    [][ /\ (Handled("startOptions") # {} /\ IssuedIn(last', {"inject"}) # {})
               => (~automationInProgress /\ Pending("startInject") = {})
        /\ (Handled("startInject") # {} /\ IssuedIn(last', {"cmd"}) # {})
               => ~automationInProgress
      ]_vars

\* --------------------------------------------------------------- C20
\* C20: a stale Actor response is a no-op. A phase response handled while no
\* run is in progress (its run has ended) changes nothing of the controller's
\* state, emits no lifecycle event and raises no alarm.
C20_StaleResponseIsNoOp ==
    [][ (Handled("resp") # {} /\ ~automationInProgress) =>
            /\ UNCHANGED <<automationInProgress, activeTabId, baseTabId, currentConfig,
                           persisted, refreshTimeoutId>>
            /\ IssuedIn(last', {"event", "alarm", "reload"}) = {}
            /\ Pending("timer")' \subseteq Pending("timer")
      ]_vars

\* --------------------------------------------------------------- C21
\* Phase commands of the run that the controller has sent and whose answer it
\* has not handled yet.
Unanswered ==
    {m \in Pending("cmd") : m.st = "main"} \cup Pending("resp")

\* C21: a navigation-complete event moves the run on (target frame
\* reassigned, content script injected, Phase 8 commanded) only while the run
\* waits for the navigation, hence never while a phase command of the run is
\* still unanswered.
C21_NavigationOnlyWhenAwaited ==
    [][ /\ (Handled("navOptions") # {}
              /\ (activeTabId' # activeTabId \/ IssuedIn(last', {"inject"}) # {}))
           => Unanswered = {}
        /\ (Handled("navInject") # {} /\ IssuedIn(last', {"cmd"}) # {})
           => Unanswered = {}
      ]_vars

\* --------------------------------------------------------------- C22
\* Number of commands of phase ph sent and not yet answered: commands still
\* travelling and answers not yet handled, copies counted.
Outstanding(ph) ==
    LET S == {m \in BagToSet(inflight) : m.k \in {"cmd", "resp"} /\ m.ph = ph}
    IN BagCardinality([m \in S |-> CopiesIn(m, inflight)])

\* C22: within one run (a single start command has been received) at most
\* one command per phase is outstanding at any time.
C22_OneOutstandingPerPhase ==
    Len(startResp) = 1 => \A ph \in {6, 8, 9} : Outstanding(ph) <= 1

\* --------------------------------------------------------------- C23
\* C23: a Phase 9 command is issued only for a ready signal of the tracked
\* frame while a run is in progress: whenever one is issued, by the handler
\* of the ready signal or by a continuation of it, a run is in progress and
\* the command goes to the tracked frame; a ready signal that does not come
\* from the tracked frame of a run in progress changes no run state.
C23_PhaseCOnlyWhenReady ==
    [][ /\ \A f \in IssuedIn(last', {"cmd"}) :
              f.ph = 9 => (automationInProgress /\ f.tab = activeTabId)
        /\ \A m \in Handled("ready") :
              ~ReadyAccepted(m.tab) =>
                  UNCHANGED <<automationInProgress, activeTabId, baseTabId,
                              currentConfig, persisted, refreshTimeoutId>>
      ]_vars

\* --------------------------------------------------------------- C24
\* C24: a phase command causes exactly one execution of the phase's DOM
\* action in the target page.
C24_OneExecutionPerCommand ==
    \A f \in Issued({"click"}) : f.n = 1

\* --------------------------------------------------------------- C25
\* The step handles Phase 9's success answer.
Completes == \E m \in Handled("resp") : m.ph = 9 /\ m.st = "success"

\* C25: the lifecycle event tells how the run ended: a step that ends a run
\* in progress sends automation_finished if it handles Phase 9's success
\* answer, and automation_aborted otherwise (failure, abort, tracked frame
\* closed).
C25_EventTellsOutcome ==
    [][ (automationInProgress /\ ~automationInProgress') =>
            {f.tag : f \in IssuedIn(last', {"event"})}
                = {IF Completes THEN "automation_finished" ELSE "automation_aborted"}
      ]_vars

\* --------------------------------------------------------------- C26
\* The refresh loop has just been entered: a timer for the run's base frame
\* is pending and its id is stored.
LoopEntered ==
    /\ refreshTimeoutId' # Null
    /\ \E t \in Pending("timer")' : t.id = refreshTimeoutId' /\ t.tab = baseTabId

\* C26: for a run in progress a command that could not be delivered has the
\* effect of an error result of the Actor: the handler of either answer sets
\* inProgress and the persisted flag to false, sends the aborted event, raises
\* the alarm, and enters the refresh loop if the run's configuration asks for
\* auto-refresh and otherwise leaves no timer behind.
C26_TransportFailureIsPhaseFailure ==
    [][ \A m \in Handled("resp") :
            (automationInProgress /\ m.st \in {"error", "transport"}) =>
                /\ ~automationInProgress'
                /\ ~persisted'
                /\ {f.tag : f \in IssuedIn(last', {"event"})} = {"automation_aborted"}
                /\ IssuedIn(last', {"alarm"}) # {}
                /\ IF currentConfig.autoRefresh
                   THEN LoopEntered
                   ELSE refreshTimeoutId' = Null /\ Pending("timer")' = {}
      ]_vars

\* --------------------------------------------------------------- C27
\* The refresh loop is running: a refresh timer is pending or a reload it
\* issued is in flight.
LoopRunning == Pending("timer") \cup Pending("reload") # {}

\* C27: a refresh loop entered after a failed or completed run is ended only
\* by an abort or by a reload that failed; no other handler (a new start,
\* which replaces the loop, set aside) leaves it without a timer or reload.
C27_LoopRunsUntilAbort ==
    [][ (LoopRunning /\ stopCause = "" /\ ~LoopRunning') =>
            last'.op \in {"abort", "reloadFailed", "start", "startBusy"} ]_vars

\* --------------------------------------------------------------- C28
\* C28: whenever inProgress is false (the run, if any, having ended otherwise
\* than by abort or frame close), no refresh timer is pending: every such
\* timer carries the base frame of the run that armed it.
C28_NoTimerWhenIdle ==
    (~automationInProgress /\ stopCause = "") => Pending("timer") = {}

\* --------------------------------------------------------------- C29
\* C29: every handler that changes inProgress leaves the persisted
\* automation_in_progress value equal to the new in-memory value.
C29_PersistedFollowsInProgress ==
    [][ automationInProgress' # automationInProgress =>
            persisted' = automationInProgress' ]_vars

\* The tracked frame of a run in progress was closed: inProgress went from
\* true to false and the persisted value is false as well.
C29_Witness ==
    /\ last.op = "trackedClosed"
    /\ stopCause = "closed"
    /\ ~automationInProgress
    /\ ~persisted

\* --------------------------------------------------------------- C30
\* C30: after any restart of the process the persisted flag is true only if
\* a run is in progress in the new process, so that the popup's start
\* control (disabled while the flag is true) is usable again.
C30_RestartResetsStaleFlag ==
    [][ last'.op \in {"restart", "browserStart"} /\ last' # last =>
            (persisted' => automationInProgress') ]_vars

\* --------------------------------------------------------------- C31
\* The entries a history holds.
StoredEntries(h) == {h[i] : i \in 1..Len(h)}

\* C31: a write of log() keeps every entry stored before it, in the order
\* stored, unless the 100-entry bound evicts it: below the bound the new
\* history is the stored one with the new entry appended.
C31_LogAppendOnly ==
    [][ (logReads # <<>> /\ logReads' = Tail(logReads) /\ Len(logHistory') < LogLimit) =>
            /\ StoredEntries(logHistory) \subseteq StoredEntries(logHistory')
            /\ logHistory' = Append(logHistory, Head(logReads).entry)
      ]_vars

\* --------------------------------------------------------------- C32
\* The date window the configuration describes, in calendar days.
InWindow(a) ==
    LET actual == writtenDay(a.actual)
        start == writtenDay(a.start)
        end == writtenDay(a.end)
    IN /\ actual # InvalidDate
       /\ start # InvalidDate
       /\ IF a.end = "" THEN actual = start
          ELSE end # InvalidDate /\ start <= actual /\ actual <= end

\* C32: isDateInRange is true exactly when the displayed date is the
\* configured day (no end date) or lies in the inclusive range start..end,
\* and false for every other date and for text that is no date.
C32_DateWindow ==
    dateResult # "unchecked" => (dateResult = "true" <=> InWindow(dateArgs))

\* --------------------------------------------------------------- C33
\* Option i of the scan is enabled and its text contains label k.
Offers(i, k) ==
    /\ ~selectArgs.options[i].disabled
    /\ TextIncludes(selectArgs.options[i].text, selectArgs.labels[k])

OptionIds == 1..Len(selectArgs.options)

LabelIds == 1..Len(selectArgs.labels)

\* C33 as claimed: Phase 8 selects the first option, in option-list order,
\* that contains any configured label, and posts success; it selects nothing
\* and posts an error if no option contains a label.
C33_FirstOptionInListOrder ==
    selectResult # NoSelection =>
        LET hits == {i \in OptionIds : \E k \in LabelIds : Offers(i, k)}
        IN IF hits = {}
           THEN selectResult = [selected |-> 0, posted |-> "error"]
           ELSE /\ selectResult.posted = "success"
                /\ selectResult.selected \in hits
                /\ \A j \in hits : selectResult.selected <= j

\* C33 amended: Phase 8 takes the configured labels in their order and, for
\* the first label that an enabled option contains, selects the first such
\* option in option-list order and posts success; it selects nothing and
\* posts an error if no enabled option contains a label.
C33_FirstOptionOfFirstLabel ==
    selectResult # NoSelection =>
        LET found == {k \in LabelIds : \E i \in OptionIds : Offers(i, k)}
            s == selectResult.selected
        IN IF found = {}
           THEN selectResult = [selected |-> 0, posted |-> "error"]
           ELSE /\ selectResult.posted = "success"
                /\ s \in OptionIds
                /\ \E k \in found :
                      /\ \A k2 \in found : k <= k2
                      /\ Offers(s, k)
                      /\ \A j \in 1..(s - 1) : ~Offers(j, k)

\* The second option was selected for the first label although the first
\* option, enabled, contains the second label.
C33_Witness ==
    /\ selectResult = [selected |-> 2, posted |-> "success"]
    /\ Len(selectArgs.labels) = 2
    /\ Offers(2, 1)
    /\ Offers(1, 2)

\* --------------------------------------------------------------- C34
\* Timers armed by the step.
NewTimers == Pending("timer")' \ Pending("timer")

\* C34: while a run is in progress no step (navigation, reassignment of the
\* target frame or any other) changes the base frame id recorded at start;
\* the refresh timer armed when the run ends, hence every reload of the
\* loop, carries that frame; and the id is cleared only by a teardown.
C34_BaseFrameKept ==
    [][ /\ (automationInProgress /\ automationInProgress') => baseTabId' = baseTabId
        /\ (automationInProgress /\ ~automationInProgress') =>
              \A t \in NewTimers : t.tab = baseTabId
        /\ (baseTabId # Null /\ baseTabId' = Null) => IssuedIn(last', {"event"}) # {}
      ]_vars

\* --------------------------------------------------------------- C35
\* C35: no step taken while a run is in progress arms an auto-refresh timer
\* or issues a refresh reload, whatever was pending when the run started.
C35_RunExcludesRefreshLoop ==
    [][ (automationInProgress /\ automationInProgress') =>
            (NewTimers = {} /\ IssuedIn(last', {"reload"}) = {}) ]_vars

\* --------------------------------------------------------------- C36
\* The handler steps that reject a start request.
StartRejections == {"startNoTab", "startDenied", "startInjectFailed"}

\* C36: when the first start request is rejected, the controller state is
\* what it was before the request: no run in progress, no target frame, no
\* base frame, no configuration and no refresh timer.
C36_RejectedStartChangesNothing ==
    [][ (Len(startResp') = 1 /\ last'.op \in StartRejections) =>
            /\ ~automationInProgress'
            /\ activeTabId' = Null
            /\ baseTabId' = Null
            /\ currentConfig' = NoConfig
            /\ refreshTimeoutId' = Null
            /\ Pending("timer")' = {}
      ]_vars

\* --------------------------------------------------------------- C37
\* C37: no target frame is tracked while no run is in progress, so that a
\* tab-close or navigation-complete event received then changes no run
\* state, cancels no timer and emits no lifecycle event or alarm.
C37_IdleTracksNoFrame ==
    [][ (~automationInProgress /\ last'.op \in {"trackedClosed", "tabClosed", "tabUpdated"}) =>
            /\ UNCHANGED <<automationInProgress, activeTabId, baseTabId, currentConfig,
                           persisted, refreshTimeoutId>>
            /\ Pending("timer")' = Pending("timer")
            /\ IssuedIn(last', {"event", "alarm"}) = {}
      ]_vars

\* --------------------------------------------------------------- C38
\* C38: the step that ends a run in progress emits one lifecycle event and
\* at most one alarm, and once a run has been ended by an abort or by the
\* closing of its frame, no step emits a further lifecycle event or alarm
\* before the next start command.
C38_OneEventPerRun ==
    [][ /\ (automationInProgress /\ ~automationInProgress') =>
              /\ Cardinality(IssuedIn(last', {"event"})) = 1
              /\ Cardinality(IssuedIn(last', {"alarm"})) <= 1
        /\ (stopCause # "" /\ stopCause' = stopCause) =>
              IssuedIn(last', {"event", "alarm"}) = {}
      ]_vars

C40_SingleRefreshTimer ==
    /\ Cardinality(Pending("timer")) <= 1
    /\ \A m \in Pending("timer") :
        /\ CopiesIn(m, inflight) = 1
        /\ m.id = refreshTimeoutId

\* The timer of a later run is pending while the reload requested by an
\* earlier timer is still to complete.
C40_Witness ==
    /\ Pending("timer") # {}
    /\ Pending("reload") # {}

=============================================================================
